---- MODULE Spec2Model ----
(***************************************************************************)
(* The scripta logging stub (stubs/scripta/logger.h): four no-op overloads *)
(* of log, a no-op setAll, and the holder templates CellVDI / PointVDI     *)
(* with their constructors and deduction guides.                           *)
(*                                                                         *)
(* A behaviour is one translation unit (site): either the two calls        *)
(* log(label, args...) and setAll(args...), or one holder construction.    *)
(* It is first translated (overload resolution, class template argument   *)
(* deduction, instantiation of the constructor), and then, when that      *)
(* succeeded, its expressions are evaluated any number of times by NumCtx  *)
(* concurrent execution contexts, while the calling code stores to its    *)
(* own objects.                                                            *)
(***************************************************************************)
EXTENDS Integers, Sequences, FiniteSets, TLC

\* Most trailing arguments of a log / setAll call expression.
MaxArgs == 2
\* Number of concurrent execution contexts evaluating the expression.
NumCtx == 2

Ctx == 1..NumCtx

VARIABLES
    site,     \* the expressions of the translation unit
    unit,     \* what the translation produced
    pc,       \* per context: "idle", "body" (callee entered), "ret" (callee returned)
    callee,   \* per context: the function the context is calling
    params,   \* per context: the parameters the callee was entered with
    temps,    \* per context: the holders alive in the current full-expression
    result,   \* per context: what the callee handed back
    world     \* the state every context can observe

vars == <<site, unit, pc, callee, params, temps, result, world>>

----------------------------------------------------------------------------
(* Types and expressions of the calling code.                              *)

\* enum class SectionType
SectionType == {"NA", "INFILL", "SUPPORT", "WALLS", "SKIN"}

\* The null pointer value of a const char* object.
NullPtr == "NULL"
PtrVals == {NullPtr, "", "a"}
StrVals == {"", "a"}

\* Label expressions: a string literal, a const char* variable p, the literal
\* nullptr, a std::string variable s, a std::string rvalue (fmt::format(...)).
LabelExprs == {"lit", "p", "nullptr", "s", "fmt"}
\* The label expressions of a holder construction.
HolderLabelExprs == {"lit", "p", "nullptr"}

LabelTy(e) ==
    CASE e = "lit" -> "const char[N]"
      [] e = "p" -> "const char*"
      [] e = "nullptr" -> "std::nullptr_t"
      [] e = "s" -> "std::string"
      [] e = "fmt" -> "std::string"

\* Payload expressions of a holder construction: &someDouble, a lambda, a
\* function name, &fn, &S::m, &S::f, the literal 3, a const int variable, an
\* array variable, a lambda capturing a std::unique_ptr, a std::unique_ptr,
\* the bit-field member b.bf.
PayloadExprs ==
    {"&x", "lambda", "fn", "&fn", "&S::m", "&S::f", "3", "cx", "arr",
     "molambda", "make_unique", "b.bf"}

\* Trailing argument expressions of log / setAll: the variable x, the const
\* SectionType variable tag, the literal 42, a CellVDI("density", &x) temporary,
\* and two bit-field members of a struct variable b: b.bf declared
\* `int bf : 3` and b.cvbf declared `const volatile int cvbf : 3`.
ArgExprs == {"x", "tag", "42", "CellVDI(lit,&x)", "b.bf", "b.cvbf"}

\* The expression designates a bit-field.
IsBitField(e) == e \in {"b.bf", "b.cvbf"}

IsHolderExpr(e) == e = "CellVDI(lit,&x)"

\* The declared type of an expression, top-level const left out.
ExprTy(e) ==
    CASE e = "&x" -> "double*"
      [] e = "lambda" -> "closure"
      [] e = "fn" -> "int()"
      [] e = "&fn" -> "int(*)()"
      [] e = "&S::m" -> "int S::*"
      [] e = "&S::f" -> "int (S::*)()"
      [] e = "3" -> "int"
      [] e = "cx" -> "int"
      [] e = "arr" -> "int[3]"
      [] e = "molambda" -> "move-only closure"
      [] e = "make_unique" -> "std::unique_ptr<int>"
      [] e = "x" -> "double"
      [] e = "tag" -> "SectionType"
      [] e = "42" -> "int"
      [] e = "CellVDI(lit,&x)" -> "CellVDI<double*>"
      [] e = "b.bf" -> "int"
      [] e = "b.cvbf" -> "int"

ExprConst(e) == e \in {"cx", "tag", "b.cvbf"}

ExprVolatile(e) == e = "b.cvbf"

ExprCat(e) ==
    IF e \in {"fn", "cx", "arr", "x", "tag", "b.bf", "b.cvbf"}
    THEN "lvalue" ELSE "rvalue"

\* The value a payload expression evaluates to: the callable or the address
\* itself, never what calling or dereferencing it would give.
PayloadValue(e) ==
    CASE e = "&x" -> [k |-> "pointer", v |-> "x"]
      [] e = "lambda" -> [k |-> "callable", v |-> "lambda"]
      [] e = "fn" -> [k |-> "callable", v |-> "fn"]
      [] e = "&fn" -> [k |-> "callable", v |-> "fn"]
      [] e = "&S::m" -> [k |-> "member", v |-> "S::m"]
      [] e = "&S::f" -> [k |-> "member", v |-> "S::f"]
      [] e = "3" -> [k |-> "value", v |-> "3"]
      [] e = "cx" -> [k |-> "value", v |-> "2"]
      [] e = "arr" -> [k |-> "pointer", v |-> "arr[0]"]
      [] e = "molambda" -> [k |-> "callable", v |-> "molambda"]
      [] e = "make_unique" -> [k |-> "owner", v |-> "heap int"]
      [] e = "b.bf" -> [k |-> "value", v |-> "1"]

SeqsUpTo(S, n) == UNION {[1..k -> S] : k \in 0..n}

\* fn = "log": the unit holds log(label, args...) and setAll(args...).
Sites ==
    [fn : {"log"}, label : LabelExprs, args : SeqsUpTo(ArgExprs, MaxArgs)]
    \cup [fn : {"CellVDI", "PointVDI"}, label : HolderLabelExprs,
          args : [1..1 -> PayloadExprs]]

----------------------------------------------------------------------------
(* Translation of a log / setAll call: overload resolution.                *)

\* Variant: the two pack-only templates are missing.
LogOverloadsNoPack ==
    {[id |-> "log_cstr_T", label |-> "const char*", hasT |-> TRUE],
     [id |-> "log_str_T", label |-> "const std::string&", hasT |-> TRUE]}

\* Variant: only the templates taking const std::string& exist, so that a
\* pointer label is converted to a temporary std::string.
LogOverloadsStrOnly ==
    {[id |-> "log_str_T", label |-> "const std::string&", hasT |-> TRUE],
     [id |-> "log_str", label |-> "const std::string&", hasT |-> FALSE]}

\* The four function templates named log: their first parameter, and whether
\* a `const T&` parameter stands before the pack `Args&&...`.
LogOverloads ==
    {[id |-> "log_cstr_T", label |-> "const char*", hasT |-> TRUE],
     [id |-> "log_cstr", label |-> "const char*", hasT |-> FALSE],
     [id |-> "log_str_T", label |-> "const std::string&", hasT |-> TRUE],
     [id |-> "log_str", label |-> "const std::string&", hasT |-> FALSE]}

\* The implicit conversion sequence from a label expression to a first
\* parameter of type paramTy: "exact", "conversion", "user" or "none".
LabelConv(e, paramTy) ==
    IF paramTy = "const char*"
    THEN CASE LabelTy(e) = "const char[N]" -> "exact"      \* array to pointer
           [] LabelTy(e) = "const char*" -> "exact"
           [] LabelTy(e) = "std::nullptr_t" -> "conversion" \* null pointer conversion
           [] OTHER -> "none"
    ELSE CASE LabelTy(e) = "std::string" -> "exact"         \* reference binding
           [] OTHER -> "user"                               \* std::string(const char*)

ConvRank(c) ==
    CASE c = "exact" -> 0 [] c = "conversion" -> 2 [] c = "user" -> 3 [] c = "none" -> 9

\* The form of the parameter that trailing argument i binds to.
ParamForm(o, i) == IF o.hasT /\ i = 1 THEN "const T&" ELSE "Args&&"

\* The reference a parameter of that form becomes for argument expression e:
\* `const T&` is an lvalue reference to const; the forwarding reference
\* `Args&&` collapses to U& / const U& for an lvalue and is U&& for an rvalue;
\* a volatile argument makes the referenced type volatile in either form.
Binding(form, e) ==
    IF form = "const T&"
    THEN [ref |-> "lvalue ref", const |-> TRUE, volatile |-> ExprVolatile(e)]
    ELSE IF ExprCat(e) = "lvalue"
         THEN [ref |-> "lvalue ref", const |-> ExprConst(e),
               volatile |-> ExprVolatile(e)]
         ELSE [ref |-> "rvalue ref", const |-> FALSE, volatile |-> FALSE]

\* Reference binding b1 is a better conversion sequence than b2 for e.
BindBetter(b1, b2, e) ==
    \/ ExprCat(e) = "rvalue" /\ b1.ref = "rvalue ref" /\ b2.ref = "lvalue ref"
    \/ /\ b1.ref = b2.ref
       /\ b1.const => b2.const
       /\ b1.volatile => b2.volatile
       /\ b1.const # b2.const \/ b1.volatile # b2.volatile

Viable(o, s) ==
    /\ o.hasT => Len(s.args) >= 1
    /\ LabelConv(s.label, o.label) # "none"

\* o1's conversion for position i (0 is the label) is better than o2's.
PosBetter(o1, o2, s, i) ==
    IF i = 0
    THEN ConvRank(LabelConv(s.label, o1.label)) < ConvRank(LabelConv(s.label, o2.label))
    ELSE BindBetter(Binding(ParamForm(o1, i), s.args[i]),
                    Binding(ParamForm(o2, i), s.args[i]), s.args[i])

\* Partial ordering of the function templates: with the same first parameter,
\* the template with the leading `const T&` is more specialized than the one
\* that has only the pack.
MoreSpecialized(o1, o2) == o1.label = o2.label /\ o1.hasT /\ ~o2.hasT

BetterOverload(o1, o2, s) ==
    /\ \A i \in 0..Len(s.args) : ~PosBetter(o2, o1, s, i)
    /\ \/ \E i \in 0..Len(s.args) : PosBetter(o1, o2, s, i)
       \/ MoreSpecialized(o1, o2)

ViableSet(s) == {o \in LogOverloads : Viable(o, s)}

BestSet(s) ==
    {o \in ViableSet(s) : \A o2 \in ViableSet(s) \ {o} : BetterOverload(o, o2, s)}

\* A reference of binding b can be initialised with argument expression e: an
\* lvalue reference cannot bind to a bit-field unless it refers to a const,
\* non-volatile type (it then binds to a temporary copy). Overload resolution
\* does not look at this; the selected function's parameters are initialised
\* afterwards.
CanBind(b, e) ==
    ~(IsBitField(e) /\ b.ref = "lvalue ref" /\ (~b.const \/ b.volatile))

\* The selected overload o can be called with the arguments of s.
Callable(o, s) ==
    \A i \in 1..Len(s.args) : CanBind(Binding(ParamForm(o, i), s.args[i]), s.args[i])

ResolveLog(s) ==
    IF ViableSet(s) = {}
    THEN [state |-> "error", target |-> "-", T |-> "-", diag |-> "no matching function"]
    ELSE IF Cardinality(BestSet(s)) # 1
    THEN [state |-> "error", target |-> "-", T |-> "-", diag |-> "ambiguous call"]
    ELSE IF ~Callable(CHOOSE o \in BestSet(s) : TRUE, s)
    THEN [state |-> "error", target |-> "-", T |-> "-",
          diag |-> "cannot bind bit-field"]
    ELSE [state |-> "ok", target |-> (CHOOSE o \in BestSet(s) : TRUE).id,
          T |-> "-", diag |-> "-"]

\* template<typename... Args> void setAll(Args&&...): the one candidate, viable
\* for every argument list; each parameter is a forwarding reference.
ResolveSetAll(s) ==
    IF \A i \in 1..Len(s.args) : CanBind(Binding("Args&&", s.args[i]), s.args[i])
    THEN [state |-> "ok", target |-> "setAll", T |-> "-", diag |-> "-"]
    ELSE [state |-> "error", target |-> "-", T |-> "-",
          diag |-> "cannot bind bit-field"]

----------------------------------------------------------------------------
(* Translation of a holder construction: class template argument deduction *)
(* and the instantiation of the constructor.                               *)

\* Variant: deduction from a parameter declared `const T&`, which takes the
\* type as written, without decay.
DeduceByConstRef(ty) == ty

\* Deduction from the by-value parameter `T` of `(const char*, T)`: arrays and
\* functions decay to pointers (top-level const is not part of ExprTy).
DeduceByValue(ty) ==
    CASE ty = "int[3]" -> "int*"
      [] ty = "int()" -> "int(*)()"
      [] OTHER -> ty

CopyConstructible(ty) == ty \notin {"move-only closure", "std::unique_ptr<int>"}

\* The deduction candidates of a holder template: the one formed from the
\* constructor, the deduction guide, and the copy deduction candidate.
Guides ==
    {[id |-> "constructor", params |-> 2, declared |-> FALSE],
     [id |-> "guide", params |-> 2, declared |-> TRUE],
     [id |-> "copy", params |-> 1, declared |-> FALSE]}

ViableGuides(s) ==
    {g \in Guides : g.params = 1 + Len(s.args) /\ LabelConv(s.label, "const char*") # "none"}

\* Both two-parameter candidates have the same signature; the one generated
\* from a deduction guide is preferred.
BestGuides(s) ==
    {g \in ViableGuides(s) : \A g2 \in ViableGuides(s) \ {g} : g.declared /\ ~g2.declared}

\* name(n), accessor(a): the member accessor is copy-initialised from the
\* parameter a, an lvalue of type T.
Instantiate(ty) ==
    IF ~CopyConstructible(ty)
    THEN [state |-> "error", target |-> "-", T |-> ty, diag |-> "use of deleted function"]
    ELSE IF ty = "int()"
    THEN [state |-> "error", target |-> "-", T |-> ty, diag |-> "field declared as a function"]
    ELSE IF ty = "int[3]"
    THEN [state |-> "error", target |-> "-", T |-> ty, diag |-> "array used as initializer"]
    ELSE [state |-> "ok", target |-> "constructor", T |-> ty, diag |-> "-"]

ResolveHolder(s) ==
    IF Cardinality(BestGuides(s)) # 1
    THEN [state |-> "error", target |-> "-", T |-> "-",
          diag |-> "class template argument deduction failed"]
    ELSE Instantiate(DeduceByValue(ExprTy(s.args[1])))

\* A unit with the two calls is translated when both calls are; the first
\* error is that of the log call.
Translate(s) ==
    IF s.fn = "log"
    THEN IF ResolveLog(s).state = "ok" /\ ResolveSetAll(s).state # "ok"
         THEN ResolveSetAll(s) ELSE ResolveLog(s)
    ELSE ResolveHolder(s)

----------------------------------------------------------------------------
(* Execution.                                                              *)

\* The objects of the calling code the expressions can name: x (someDouble),
\* the SectionType tag, the const char* p and the std::string s.
AllMem == [x : {0, 1}, tag : SectionType, p : PtrVals, s : StrVals]

\* The values the calling code gives its objects in the course of a run.
MemStates ==
    {[x |-> 0, tag |-> "NA", p |-> NullPtr, s |-> ""],
     [x |-> 1, tag |-> "INFILL", p |-> "", s |-> "a"],
     [x |-> 0, tag |-> "SUPPORT", p |-> "a", s |-> ""],
     [x |-> 1, tag |-> "WALLS", p |-> NullPtr, s |-> "a"],
     [x |-> 1, tag |-> "SKIN", p |-> "", s |-> ""]}

InitWorld ==
    [mem |-> [x |-> 0, tag |-> "NA", p |-> NullPtr, s |-> ""],
     out |-> <<>>,        \* everything written to any stream or file
     glob |-> "unset",    \* namespace-scope state of the logger
     invoked |-> {},      \* the payloads that were called or dereferenced
     retained |-> {}]     \* the arguments something still refers to

\* What a function body does: the world it leaves, what it returns, whether it
\* throws, the shared locations it reads or writes, the resources it waits on.

\* Variant: the body counts the call in the output.
log_cstr_T_counts(w, label, value, args) ==
    [world |-> [w EXCEPT !.out = Append(w.out, "log")],
     ret |-> "void", exc |-> FALSE, touches |-> {"out"}, waits |-> {}]

\* template<typename T, typename... Args> void log(const char*, const T&, Args&&...) {}
log_cstr_T(w, label, value, args) ==
    [world |-> w, ret |-> "void", exc |-> FALSE, touches |-> {}, waits |-> {}]

\* Variant: the body writes the label to the output.
log_cstr_prints(w, label, args) ==
    [world |-> [w EXCEPT !.out = <<label>>],
     ret |-> "void", exc |-> FALSE, touches |-> {"out"}, waits |-> {}]

\* Variant: the body reads the logger's namespace-scope state unguarded.
log_cstr_races(w, label, args) ==
    [world |-> w, ret |-> "void", exc |-> FALSE, touches |-> {"glob"}, waits |-> {}]

\* template<typename... Args> void log(const char*, Args&&...) {}
log_cstr(w, label, args) ==
    [world |-> w, ret |-> "void", exc |-> FALSE, touches |-> {}, waits |-> {}]

\* Variant: the body writes a line unless the payload is the tag NA.
log_str_T_filters(w, label, value, args) ==
    [world |-> IF value.obj = "tag" /\ w.mem.tag # "NA"
               THEN [w EXCEPT !.out = <<"line">>] ELSE w,
     ret |-> "void", exc |-> FALSE, touches |-> {"out"}, waits |-> {}]

\* template<typename T, typename... Args> void log(const std::string&, const T&, Args&&...) {}
log_str_T(w, label, value, args) ==
    [world |-> w, ret |-> "void", exc |-> FALSE, touches |-> {}, waits |-> {}]

\* Variant: the body takes the logger's mutex.
log_str_locks(w, label, args) ==
    [world |-> w, ret |-> "void", exc |-> FALSE, touches |-> {}, waits |-> {"mutex"}]

\* template<typename... Args> void log(const std::string&, Args&&...) {}
log_str(w, label, args) ==
    [world |-> w, ret |-> "void", exc |-> FALSE, touches |-> {}, waits |-> {}]

\* Variant: the body records that the fields were set.
setAll_sets(w, args) ==
    [world |-> [w EXCEPT !.glob = "set"],
     ret |-> "void", exc |-> FALSE, touches |-> {"glob"}, waits |-> {}]

\* template<typename... Args> void setAll(Args&&...) {}
setAll(w, args) ==
    [world |-> w, ret |-> "void", exc |-> FALSE, touches |-> {}, waits |-> {}]

\* Variant: the constructor calls a callable payload and stores what it returned.
CellVDI_ctor_invokes(w, n, a) ==
    [world |-> IF a.k = "callable" THEN [w EXCEPT !.invoked = @ \cup {a.v}] ELSE w,
     obj |-> [tmpl |-> "CellVDI", name |-> n,
              accessor |-> IF a.k = "callable" THEN [k |-> "value", v |-> "1"] ELSE a]]

\* CellVDI(const char* n, T a) : name(n), accessor(a) {}
CellVDI_ctor(w, n, a) ==
    [world |-> w, obj |-> [tmpl |-> "CellVDI", name |-> n, accessor |-> a]]

\* PointVDI(const char* n, T a) : name(n), accessor(a) {}
PointVDI_ctor(w, n, a) ==
    [world |-> w, obj |-> [tmpl |-> "PointVDI", name |-> n, accessor |-> a]]

\* The pointer a label expression of pointer type evaluates to.
LabelPtr(e, mem) ==
    CASE e = "lit" -> "lit"
      [] e = "p" -> mem.p
      [] OTHER -> NullPtr

\* The first parameter of the selected overload.
TargetLabelTy(target) == (CHOOSE o \in LogOverloads : o.id = target).label

\* Initialisation of the first parameter from the label expression: a pointer
\* copy for `const char*`; for `const std::string&` a reference to the string,
\* or, from a pointer, a temporary std::string. Constructing that from a null
\* pointer is undefined: it may throw (thrown TRUE) or go unnoticed.
BindLabel(paramTy, e, mem) ==
    IF paramTy = "const char*"
    THEN [thrown |-> {FALSE}, label |-> LabelPtr(e, mem)]
    ELSE IF LabelTy(e) = "std::string"
    THEN [thrown |-> {FALSE}, label |-> e]
    ELSE [thrown |-> IF LabelPtr(e, mem) = NullPtr THEN {TRUE, FALSE} ELSE {FALSE},
          label |-> "temporary"]

\* The references the trailing arguments are passed as.
ArgRefs(args) == [i \in 1..Len(args) |-> [obj |-> args[i], pos |-> i]]

\* Evaluation of the trailing arguments: each holder expression runs the
\* CellVDI constructor and leaves a temporary.
RECURSIVE EvalArgs(_, _)
EvalArgs(w, args) ==
    IF args = <<>>
    THEN [world |-> w, objs |-> <<>>]
    ELSE IF IsHolderExpr(Head(args))
    THEN LET h == CellVDI_ctor(w, LabelPtr("lit", w.mem), PayloadValue("&x"))
             r == EvalArgs(h.world, Tail(args))
         IN  [world |-> r.world, objs |-> <<h.obj>> \o r.objs]
    ELSE EvalArgs(w, Tail(args))

\* No callee entered: no parameters.
NoParams == [n |-> "-", a |-> "-"]

\* The first parameter of the function a call of the unit enters, initialised
\* from the label as it is when the arguments are evaluated; setAll has none.
LabelParam(target, s, mem) ==
    IF target = "setAll" THEN "-"
    ELSE BindLabel(TargetLabelTy(target), s.label, mem).label

\* The body of the selected function, run in world w on the first parameter
\* it was entered with and the references to the trailing arguments.
RunBody(target, w, label, s) ==
    LET refs == ArgRefs(s.args)
    IN  CASE target = "log_cstr_T" -> log_cstr_T(w, label, Head(refs), Tail(refs))
          [] target = "log_cstr" -> log_cstr(w, label, refs)
          [] target = "log_str_T" -> log_str_T(w, label, Head(refs), Tail(refs))
          [] target = "log_str" -> log_str(w, label, refs)
          [] target = "setAll" -> setAll(w, refs)

\* The whole call of the selected function in world w: the parameters are
\* initialised and the body runs.
Invoke(target, w, s) == RunBody(target, w, LabelParam(target, s, w.mem), s)

Construct(tmpl, w, n, a) ==
    IF tmpl = "CellVDI" THEN CellVDI_ctor(w, n, a) ELSE PointVDI_ctor(w, n, a)

IsCall(s) == s.fn = "log"

\* The function a call of f in the unit runs.
Target(f) == IF f = "log" THEN unit.target ELSE ResolveSetAll(site).target

Init ==
    /\ site \in Sites
    /\ unit = [state |-> "source", target |-> "-", T |-> "-", diag |-> "-"]
    /\ pc = [c \in Ctx |-> "idle"]
    /\ callee = [c \in Ctx |-> "-"]
    /\ params = [c \in Ctx |-> NoParams]
    /\ temps = [c \in Ctx |-> <<>>]
    /\ result = [c \in Ctx |-> "none"]
    /\ world = InitWorld

\* The compiler translates the expression.
Compile ==
    /\ unit.state = "source"
    /\ unit' = Translate(site)
    /\ UNCHANGED <<site, pc, callee, params, temps, result, world>>

\* Context c starts evaluating the call of f: the arguments are evaluated and
\* the parameters of the selected function are initialised.
EvaluateCall(c, f) ==
    /\ unit.state = "ok"
    /\ IsCall(site)
    /\ pc[c] = "idle"
    /\ LET ev == EvalArgs(world, site.args)
           outcomes == IF f = "log"
                       THEN BindLabel(TargetLabelTy(Target(f)), site.label, world.mem).thrown
                       ELSE {FALSE}
       IN  \E thrown \in outcomes :
               /\ world' = ev.world
               /\ temps' = [temps EXCEPT ![c] = ev.objs]
               /\ pc' = [pc EXCEPT ![c] = IF thrown THEN "ret" ELSE "body"]
               /\ params' = [params EXCEPT ![c] =
                                IF thrown THEN NoParams
                                ELSE [n |-> LabelParam(Target(f), site, world.mem),
                                      a |-> "-"]]
               /\ result' = [result EXCEPT ![c] = IF thrown THEN "thrown" ELSE "none"]
    /\ callee' = [callee EXCEPT ![c] = f]
    /\ UNCHANGED <<site, unit>>

\* Context c starts evaluating the holder construction: the label pointer and
\* the payload are read and copied into the constructor's by-value parameters
\* n and a.
EvaluateHolder(c) ==
    /\ unit.state = "ok"
    /\ ~IsCall(site)
    /\ pc[c] = "idle"
    /\ pc' = [pc EXCEPT ![c] = "body"]
    /\ callee' = [callee EXCEPT ![c] = "constructor"]
    /\ params' = [params EXCEPT ![c] = [n |-> LabelPtr(site.label, world.mem),
                                        a |-> PayloadValue(site.args[1])]]
    /\ UNCHANGED <<site, unit, temps, result, world>>

\* A body that waits on a resource runs only while no other context is in one.
CanRun(c, o) == o.waits = {} \/ \A d \in Ctx \ {c} : pc[d] # "body"

\* The body of the selected function, or of the holder's constructor, runs on
\* the parameters it was entered with, and the parameters go out of scope.
Body(c) ==
    /\ pc[c] = "body"
    /\ IF IsCall(site)
       THEN LET o == RunBody(Target(callee[c]), world, params[c].n, site)
            IN  /\ CanRun(c, o)
                /\ world' = o.world
                /\ result' = [result EXCEPT ![c] = IF o.exc THEN "thrown" ELSE o.ret]
                /\ UNCHANGED temps
       ELSE LET h == Construct(site.fn, world, params[c].n, params[c].a)
            IN  /\ world' = h.world
                /\ temps' = [temps EXCEPT ![c] = <<h.obj>>]
                /\ result' = [result EXCEPT ![c] = "constructed"]
    /\ pc' = [pc EXCEPT ![c] = "ret"]
    /\ params' = [params EXCEPT ![c] = NoParams]
    /\ UNCHANGED <<site, unit, callee>>

\* The full-expression ends: its temporaries are destroyed.
Return(c) ==
    /\ pc[c] = "ret"
    /\ pc' = [pc EXCEPT ![c] = "idle"]
    /\ temps' = [temps EXCEPT ![c] = <<>>]
    /\ result' = [result EXCEPT ![c] = "none"]
    /\ callee' = [callee EXCEPT ![c] = "-"]
    /\ UNCHANGED <<site, unit, params, world>>

\* The objects the expression names.
Names(s, obj) ==
    CASE obj = "x" -> \E i \in 1..Len(s.args) : s.args[i] \in {"x", "&x", "CellVDI(lit,&x)"}
      [] obj = "tag" -> \E i \in 1..Len(s.args) : s.args[i] = "tag"
      [] obj = "p" -> s.label = "p"
      [] obj = "s" -> s.label = "s"

\* The objects of valuation m the unit names; the others are never stored to.
Named(m, s) ==
    [obj \in {"x", "tag", "p", "s"} |->
        IF Names(s, obj) THEN m[obj] ELSE InitWorld.mem[obj]]

\* The calling code, in a context that is between two evaluations, stores to
\* the objects the unit names.
CallerStore ==
    /\ unit.state = "ok"
    /\ \E c \in Ctx : pc[c] = "idle"
    /\ \E m \in MemStates :
          /\ Named(m, site) # world.mem
          /\ world' = [world EXCEPT !.mem = Named(m, site)]
    /\ UNCHANGED <<site, unit, pc, callee, params, temps, result>>

Next ==
    \/ Compile
    \/ \E c \in Ctx, f \in {"log", "setAll"} : EvaluateCall(c, f)
    \/ \E c \in Ctx : EvaluateHolder(c)
    \/ \E c \in Ctx : Body(c)
    \/ \E c \in Ctx : Return(c)
    \/ CallerStore

Spec == Init /\ [][Next]_vars

\* Every context that started an evaluation is scheduled until it finishes.
FairSpec == Spec /\ \A c \in Ctx : WF_vars(Body(c)) /\ WF_vars(Return(c))

----------------------------------------------------------------------------
(* Properties.                                                             *)

HolderSite == site.fn \in {"CellVDI", "PointVDI"}

\* Context c's callee f runs its body in this step.
BodyStepOf(c, f) == callee[c] = f /\ pc[c] = "body" /\ pc'[c] = "ret"

\* Context c enters a call of f in this step.
EntryStepOf(c, f) == pc[c] = "idle" /\ pc'[c] # "idle" /\ callee'[c] = f

\* C1: every call of log, whichever overload the label and the trailing
\* arguments select, returns void and leaves the world (output, global state,
\* the objects the label and the arguments refer to) and the temporaries of
\* every context as they were; passing the label converts nothing, and
\* passing the arguments changes nothing either.
C1_LogNoEffect ==
    [][\A c \in Ctx :
          /\ BodyStepOf(c, "log") =>
                /\ world' = world
                /\ temps' = temps
                /\ result'[c] = "void"
          /\ EntryStepOf(c, "log") =>
                /\ world' = world
                /\ BindLabel(TargetLabelTy(unit.target), site.label, world.mem).label
                      = IF LabelTy(site.label) = "std::string"
                        THEN site.label ELSE LabelPtr(site.label, world.mem)]_vars

C1_Witness ==
    \E c \in Ctx :
        /\ callee[c] = "log" /\ pc[c] = "ret" /\ result[c] = "void"
        /\ site.label = "s" /\ site.args = <<"x", "CellVDI(lit,&x)">>
        /\ world.mem.x = 1

\* C2: every call of setAll, with no, one or several arguments, returns void
\* and leaves the world and the temporaries of every context as they were.
C2_SetAllNoEffect ==
    [][\A c \in Ctx : BodyStepOf(c, "setAll") =>
          /\ world' = world
          /\ temps' = temps
          /\ result'[c] = "void"]_vars

C2_Witness ==
    /\ \E c \in Ctx : callee[c] = "setAll" /\ pc[c] = "ret" /\ result[c] = "void"
                      /\ Len(temps[c]) = 1
    /\ site.args = <<"tag", "CellVDI(lit,&x)">>
    /\ world.mem.tag = "WALLS"

\* The payloads whose type has no copy constructor.
MoveOnlyPayloads == {"molambda", "make_unique"}

\* What a holder constructed from label pointer n and payload expression e holds.
HolderOf(tmpl, n, e) == [tmpl |-> tmpl, name |-> n, accessor |-> PayloadValue(e)]

\* The constructor is entered with the label pointer and the payload the
\* caller has when it evaluates the arguments, stores them as given, whatever
\* the caller stores to the label meanwhile, and changes nothing else, both
\* for a holder constructed on its own and for the holder temporaries among
\* the arguments of a call.
ConstructionStores ==
    \A c \in Ctx :
        /\ EntryStepOf(c, "constructor") =>
              /\ params'[c].n = LabelPtr(site.label, world.mem)
              /\ params'[c].a = PayloadValue(site.args[1])
              /\ world' = world
        /\ BodyStepOf(c, "constructor") =>
              /\ temps'[c] = <<HolderOf(site.fn, params[c].n, site.args[1])>>
              /\ world' = world
        /\ (IsCall(site) /\ pc[c] = "idle" /\ pc'[c] # "idle") =>
              /\ world' = world
              /\ Len(temps'[c]) = Cardinality({i \in 1..Len(site.args) : IsHolderExpr(site.args[i])})
              /\ \A i \in 1..Len(temps'[c]) : temps'[c][i] = HolderOf("CellVDI", "lit", "&x")

\* C3 as stated: the construction of a CellVDI / PointVDI from a payload of
\* any type is accepted by the compiler, and stores label and payload without
\* invoking or dereferencing the payload.
C3_AnyPayloadConstructs ==
    [][/\ (HolderSite /\ unit.state = "source") => unit'.state = "ok"
       /\ ConstructionStores]_vars

\* C3, amended: the construction of a CellVDI / PointVDI from a payload of
\* any copy-constructible type is accepted by the compiler, and stores label
\* and payload without invoking or dereferencing the payload.
C3_CopyablePayloadConstructs ==
    [][/\ (HolderSite /\ unit.state = "source" /\ site.args[1] \notin MoveOnlyPayloads)
             => unit'.state = "ok"
       /\ ConstructionStores]_vars

C3_Witness ==
    /\ site.fn = "PointVDI" /\ site.label = "p" /\ site.args = <<"lambda">>
    /\ \E c \in Ctx : pc[c] = "ret" /\ result[c] = "constructed"
                      /\ temps[c][1].name = "a"
                      /\ temps[c][1].accessor = [k |-> "callable", v |-> "lambda"]
    /\ world.mem.p = NullPtr

\* The trailing arguments that are bit-field lvalues of a non-const or a
\* volatile type.
BitFieldArgs(s) ==
    {i \in 1..Len(s.args) :
        /\ IsBitField(s.args[i]) /\ ExprCat(s.args[i]) = "lvalue"
        /\ ~ExprConst(s.args[i]) \/ ExprVolatile(s.args[i])}

\* C4 as stated: every call of log in the unit (no, one or several trailing
\* arguments; the label a literal, a const char*, nullptr, a std::string
\* lvalue or rvalue; each argument an lvalue, a const lvalue or an rvalue)
\* compiles: it has a viable overload and exactly one best one, which is the
\* function called.
C4_LogCallCompiles ==
    (IsCall(site) /\ unit.state # "source") =>
        /\ ResolveLog(site).state = "ok"
        /\ unit.state = "ok"
        /\ ViableSet(site) # {}
        /\ Cardinality(BestSet(site)) = 1
        /\ unit.target \in {"log_cstr_T", "log_cstr", "log_str_T", "log_str"}

\* C4, amended: every call of log has a viable overload and exactly one best
\* one; when no trailing argument is a bit-field lvalue of a non-const or a
\* volatile type the call compiles and calls that overload, and otherwise the
\* compiler rejects it because the overload's reference parameter cannot bind
\* to the bit-field.
C4_LogCallResolves ==
    (IsCall(site) /\ unit.state # "source") =>
        /\ ViableSet(site) # {}
        /\ Cardinality(BestSet(site)) = 1
        /\ BitFieldArgs(site) = {} =>
              /\ ResolveLog(site).state = "ok"
              /\ unit.state = "ok"
              /\ unit.target \in {"log_cstr_T", "log_cstr", "log_str_T", "log_str"}
              /\ unit.target = (CHOOSE o \in BestSet(site) : TRUE).id
        /\ BitFieldArgs(site) # {} =>
              /\ unit.state = "error"
              /\ unit.diag = "cannot bind bit-field"

C4_Witness ==
    /\ site = [fn |-> "log", label |-> "fmt", args |-> <<"tag", "42">>]
    /\ unit.state = "ok"
    /\ unit.target = "log_str_T"
    /\ Cardinality(ViableSet(site)) = 2

\* The type of a payload expression when passed by value.
ByValueType(e) ==
    CASE e = "&x" -> "double*"
      [] e = "lambda" -> "closure"
      [] e = "fn" -> "int(*)()"
      [] e = "&fn" -> "int(*)()"
      [] e = "&S::m" -> "int S::*"
      [] e = "&S::f" -> "int (S::*)()"
      [] e = "3" -> "int"
      [] e = "cx" -> "int"
      [] e = "arr" -> "int*"
      [] e = "molambda" -> "move-only closure"
      [] e = "make_unique" -> "std::unique_ptr<int>"
      [] e = "b.bf" -> "int"

\* C5 as stated: for CellVDI(label, payload) and PointVDI(label, payload)
\* the template argument is deduced from the payload, for every kind of
\* payload, so that the construction compiles without a deduction error and
\* yields the holder of the payload's by-value type.
C5_AnyPayloadDeducedAndBuilt ==
    (HolderSite /\ unit.state # "source") =>
        /\ unit.diag # "class template argument deduction failed"
        /\ Cardinality(BestGuides(site)) = 1
        /\ unit.T = ByValueType(site.args[1])
        /\ unit.state = "ok"
        /\ unit.target = "constructor"

\* C5, amended: the template argument is deduced from the payload, for every
\* kind of payload, without a deduction error, and is the payload's by-value
\* type; and for every payload of a copy-constructible type the construction
\* compiles and yields the holder of that type.
C5_PayloadTypeDeduced ==
    (HolderSite /\ unit.state # "source") =>
        /\ unit.diag # "class template argument deduction failed"
        /\ Cardinality(BestGuides(site)) = 1
        /\ unit.T = ByValueType(site.args[1])
        /\ site.args[1] \notin MoveOnlyPayloads =>
              /\ unit.state = "ok"
              /\ unit.target = "constructor"

C5_Witness ==
    /\ site = [fn |-> "CellVDI", label |-> "lit", args |-> <<"fn">>]
    /\ unit.state = "ok"
    /\ unit.T = "int(*)()"

\* C6: whatever calls of log and setAll the contexts are in at the same time,
\* no body reads or writes a location another context can reach, and every
\* body can run at once, whatever the other contexts are doing.
C6_NoSharedAccess ==
    \A c \in Ctx :
        (IsCall(site) /\ pc[c] = "body") =>
            /\ RunBody(Target(callee[c]), world, params[c].n, site).touches = {}
            /\ RunBody(Target(callee[c]), world, params[c].n, site).waits = {}
            /\ ENABLED Body(c)

C6_Witness ==
    \E c, d \in Ctx :
        /\ c # d
        /\ pc[c] = "body" /\ callee[c] = "log"
        /\ pc[d] = "body" /\ callee[d] = "setAll"
        /\ Len(temps[c]) = 1 /\ Len(temps[d]) = 1

\* C7: a second call of log or setAll with the same arguments leaves the
\* world the first call left, which is the world before it; and whatever calls
\* were made, the output, the global state and the sets of invoked and
\* retained objects are those of the initial state.
C7_Idempotent ==
    /\ world.out = InitWorld.out
    /\ world.glob = InitWorld.glob
    /\ world.invoked = InitWorld.invoked
    /\ world.retained = InitWorld.retained
    /\ (IsCall(site) /\ unit.state = "ok") =>
          \A f \in {"log", "setAll"} :
              LET once == Invoke(Target(f), world, site)
                  twice == Invoke(Target(f), once.world, site)
              IN  twice.world = once.world /\ once.world = world

C7_Witness ==
    /\ IsCall(site)
    /\ \A c \in Ctx : pc[c] = "ret" /\ callee[c] = "log" /\ result[c] = "void"
    /\ world.mem.tag = "SKIN"

\* C8: no call of log or setAll throws or reports an error, also not for a
\* null label pointer, an empty label or any SectionType; a unit the compiler
\* rejected is never run.
C8_NoRuntimeError ==
    /\ \A c \in Ctx :
          /\ result[c] \in {"none", "void", "constructed"}
          /\ (IsCall(site) /\ pc[c] = "body") =>
                ~RunBody(Target(callee[c]), world, params[c].n, site).exc
    /\ unit.state # "ok" => \A c \in Ctx : pc[c] = "idle"

C8_Witness ==
    /\ site.label = "p" /\ world.mem.p = NullPtr
    /\ \E c \in Ctx : callee[c] = "log" /\ pc[c] = "ret" /\ result[c] = "void"

\* What a call shows to the outside, the caller's own objects left out.
Effect(o) ==
    [out |-> o.world.out, glob |-> o.world.glob, invoked |-> o.world.invoked,
     retained |-> o.world.retained, ret |-> o.ret, exc |-> o.exc,
     touches |-> o.touches, waits |-> o.waits]

\* C9: a call of log or setAll on other values of the label, the payload and
\* the SectionType tag has the same effect and the same return, and leaves
\* those values as they are.
C9_ArgumentsNotInspected ==
    (IsCall(site) /\ unit.state = "ok") =>
        \A f \in {"log", "setAll"}, m \in AllMem :
            LET here == Invoke(Target(f), world, site)
                there == Invoke(Target(f), [world EXCEPT !.mem = m], site)
            IN  Effect(there) = Effect(here) /\ there.world.mem = m

C9_Witness ==
    /\ site.label = "s" /\ site.args = <<"tag", "x">>
    /\ world.mem.tag = "INFILL" /\ world.mem.s = "a"
    /\ \E c \in Ctx : callee[c] = "log" /\ pc[c] = "ret" /\ result[c] = "void"

\* C10: every call of log or setAll that was entered returns, and once the
\* full-expression is over none of its holder temporaries is left, nor
\* retained by anything.
C10_CallsTerminate ==
    /\ \A c \in Ctx : (IsCall(site) /\ pc[c] = "body") ~> (pc[c] = "idle")
    /\ [](\A c \in Ctx : pc[c] = "idle" => temps[c] = <<>>)
    /\ [](world.retained = {})

C10_Witness ==
    \E c, d \in Ctx :
        /\ c # d
        /\ pc[c] = "body" /\ Len(temps[c]) = 2
        /\ pc[d] = "idle" /\ temps[d] = <<>>

====
